---- MODULE Spec2Model ----
(***************************************************************************)
(* A model of src/openks/models/paddle/ner.py: the label aligner           *)
(* (tokenize_and_align_labels), the BIO span decoder (parse_decodes) and   *)
(* the checkpointing cadence of the training loop (NerPaddle.run).         *)
(*                                                                         *)
(* Python strings are modelled as sequences of one-character strings, so   *)
(* that startswith, split, slicing and concatenation are computed and not  *)
(* assumed.  Python lists are sequences; a Python index i is index i + 1.  *)
(***************************************************************************)
EXTENDS Integers, Sequences, FiniteSets, TLC

VARIABLES
    \* tokenize_and_align_labels
    labels,            \* example['labels'], the word-level label ids
    input_ids_len,     \* len(tokenized_input['input_ids'])
    tokenized_labels,  \* tokenized_input['labels'] of the returned dict
    a_pc,
    \* parse_decodes
    input_words,       \* the examples; input_words[i] is example['tokens']
    decodes,           \* batches of predicted id sequences
    lens,              \* batches of lengths
    flat_decodes,      \* decodes after line 38
    flat_lens,         \* lens after line 39
    idx,               \* number of iterations of the loop of line 42 done
    outputs,           \* the list returned: one rendered string per example
    locals_out,        \* per example, sent_out and tags_out as line 63 reads them
    d_pc,
    \* NerPaddle.run
    args,              \* the hyper-parameters, the loader's length and the rank
    epoch,
    step,
    global_step,
    opt_steps,         \* calls of optimizer.step() so far
    evaluated,         \* the global steps at which self.evaluate ran, in order
    saved,             \* the step ids of the checkpoints written, in order
    logged,            \* the global steps at which the progress line was printed
    r_pc

avars == <<labels, input_ids_len, tokenized_labels, a_pc>>
dvars == <<input_words, decodes, lens, flat_decodes, flat_lens, idx, outputs,
           locals_out, d_pc>>
rvars == <<args, epoch, step, global_step, opt_steps, evaluated, saved, logged,
           r_pc>>
vars == <<avars, dvars, rvars>>

----------------------------------------------------------------------------
(* Bounds of the model *)

MaxLabels == 4
MaxSubtokens == 5
MaxTokens == 3
MaxTags == 3
MaxExamples == 3
MaxEpochs == 2
MaxBatches == 3
MaxSaveSteps == 3
MaxRank == 1

----------------------------------------------------------------------------
(* Python helpers *)

Min(a, b) == IF a < b THEN a ELSE b
Max(a, b) == IF a < b THEN b ELSE a

SeqsUpTo(S, n) == UNION {[1..k -> S] : k \in 0..n}

\* A Python slice bound on a sequence of length n: negative counts from the end.
SliceBound(i, n) == IF i < 0 THEN Max(i + n, 0) ELSE Min(i, n)

\* s[lo:hi]
PySlice(s, lo, hi) ==
    LET a == SliceBound(lo, Len(s))
        b == SliceBound(hi, Len(s))
    IN IF a < b THEN SubSeq(s, a + 1, b) ELSE <<>>

\* "".join(parts), and the flattening comprehension [x for b in bs for x in b]
RECURSIVE Join(_)
Join(parts) ==
    IF parts = <<>> THEN <<>> ELSE Head(parts) \o Join(Tail(parts))

\* t.startswith(p)
StartsWith(t, p) == Len(t) >= Len(p) /\ SubSeq(t, 1, Len(p)) = p

\* t.split(sep) for a one-character sep
RECURSIVE SplitAcc(_, _, _)
SplitAcc(t, sep, cur) ==
    IF t = <<>> THEN <<cur>>
    ELSE IF Head(t) = sep THEN <<cur>> \o SplitAcc(Tail(t), sep, <<>>)
    ELSE SplitAcc(Tail(t), sep, Append(cur, Head(t)))

Split(t, sep) == SplitAcc(t, sep, <<>>)

----------------------------------------------------------------------------
(* The label list.  id2label[i + 1] is the tag of label id i; the last id  *)
(* is the O tag, as run() sets no_entity_id = label_num - 1.  parse_decodes *)
(* takes id2label as a parameter: the list here holds two entity types,    *)
(* one of them with a hyphen in its name.                                  *)

id2label ==
    << <<"B", "-", "X">>, <<"I", "-", "X">>,
       <<"B", "-", "P", "-", "Q">>, <<"I", "-", "P", "-", "Q">>,
       <<"O">> >>

label_num == Len(id2label)
no_entity_id == label_num - 1
LabelIds == 0..(label_num - 1)

----------------------------------------------------------------------------
(* tokenize_and_align_labels *)

\* Faulty variant: the cut keeps room for one boundary position only.
TruncateLabelsOneBoundary(ls, n) ==
    IF n - 2 < Len(ls) THEN PySlice(ls, 0, n - 1) ELSE ls

\* Faulty variant: the cut keeps the last labels instead of the first.
TruncateLabelsTail(ls, n) ==
    IF n - 2 < Len(ls) THEN PySlice(ls, Len(ls) - (n - 2), Len(ls)) ELSE ls

\* lines 30-31
TruncateLabels(ls, n) ==
    IF n - 2 < Len(ls) THEN PySlice(ls, 0, n - 2) ELSE ls

\* line 32
WrapLabels(ls) == <<no_entity_id>> \o ls \o <<no_entity_id>>

\* lines 33-34: [no_entity_id] * k is empty for k <= 0
PadLabels(ls, n) ==
    ls \o [i \in 1..Max(n - Len(ls), 0) |-> no_entity_id]

AlignLabels(ls, n) == PadLabels(WrapLabels(TruncateLabels(ls, n)), n)

AlignInit ==
    /\ labels \in SeqsUpTo(LabelIds, MaxLabels)
    /\ input_ids_len \in 2..MaxSubtokens
    /\ tokenized_labels = <<>>
    /\ a_pc = "start"

AlignIdle ==
    /\ labels = <<>>
    /\ input_ids_len = 2
    /\ tokenized_labels = <<>>
    /\ a_pc = "idle"

tokenize_and_align_labels ==
    /\ a_pc = "start"
    /\ tokenized_labels' = AlignLabels(labels, input_ids_len)
    /\ a_pc' = "done"
    /\ UNCHANGED <<labels, input_ids_len>>

----------------------------------------------------------------------------
(* parse_decodes *)

TokenSet == { <<"a">>, <<"b", "c">> }
OTag == <<"O">>
BPrefix == <<"B", "-">>
IPrefix == <<"I", "-">>

\* Faulty variant: the batches are concatenated last batch first.
RECURSIVE FlattenBatchesReversed(_)
FlattenBatchesReversed(batches) ==
    IF batches = <<>> THEN <<>>
    ELSE FlattenBatchesReversed(Tail(batches)) \o Head(batches)

\* lines 38-39: [x for batch in batches for x in batch]
FlattenBatches(batches) == Join(batches)

\* Faulty variant: the slice stops one position later.
TagSliceLate(pred, end) == PySlice(pred, 1, end + 1)

\* Faulty variant: the slice keeps the boundary position.
TagSliceFromZero(pred, end) == PySlice(pred, 0, end)

\* line 44: decodes[idx][1:end]
TagSlice(pred, end) == PySlice(pred, 1, end)

\* line 44: tags = [id2label[x] for x in decodes[idx][1:end]]
TagsOf(pred, end) ==
    LET ids == TagSlice(pred, end)
    IN [i \in 1..Len(ids) |-> id2label[ids[i] + 1]]

\* line 49
OpensSpan(t) == StartsWith(t, BPrefix) \/ t = OTag

\* lines 50-51
CloseSpan(sent_out, words) ==
    IF Len(words) > 0 THEN Append(sent_out, words) ELSE sent_out

\* lines 52-56: t.split('-')[1] for a B- tag, the tag itself for O
EntityType(t) ==
    IF StartsWith(t, BPrefix) THEN Split(t, "-")[2] ELSE t

\* Faulty variant: the continuation restarts the accumulator.
ContinueSpanRestart(words, s) == <<s>>

\* line 60: words += s
ContinueSpan(words, s) == Append(words, s)

\* lines 49-60, one iteration of the loop of line 48
LoopStep(st, s, t) ==
    IF OpensSpan(t)
    THEN [sent_out |-> CloseSpan(st.sent_out, st.words),
          tags_out |-> Append(st.tags_out, EntityType(t)),
          words    |-> <<s>>]
    ELSE [st EXCEPT !.words = ContinueSpan(st.words, s)]

\* lines 45-60: for s, t in zip(sent, tags), from i on
RECURSIVE WalkFrom(_, _, _, _)
WalkFrom(st, sent, tags, i) ==
    IF i > Min(Len(sent), Len(tags)) THEN st
    ELSE WalkFrom(LoopStep(st, sent[i], tags[i]), sent, tags, i + 1)

\* Faulty variant: the open accumulator is never flushed.
FixUpNever(st) == st

\* lines 61-62
FixUp(st) ==
    IF Len(st.sent_out) < Len(st.tags_out)
    THEN [st EXCEPT !.sent_out = Append(st.sent_out, st.words)]
    ELSE st

\* lines 43-62: the locals of one example when line 63 is reached
DecodeExample(tokens, pred, end) ==
    FixUp(WalkFrom([sent_out |-> <<>>, tags_out |-> <<>>, words |-> <<>>],
                   Join(tokens), TagsOf(pred, end), 1))

\* str((s, t)) of a pair of strings: ('s', 't')
RenderPair(s, t) ==
    <<"(", "'">> \o s \o <<"'", ",", " ", "'">> \o t \o <<"'", ")">>

\* lines 63-64: ''.join([str((s, t)) for s, t in zip(sent_out, tags_out)])
RenderExample(st) ==
    Join([i \in 1..Min(Len(st.sent_out), Len(st.tags_out)) |->
            RenderPair(st.sent_out[i], st.tags_out[i])])

\* A prediction: the id at the boundary position, then up to MaxTags ids.
Preds == {<<b>> \o t : b \in LabelIds, t \in SeqsUpTo(LabelIds, MaxTags)}

\* One batch holding one example, over every tag sequence of the bound.
DecodeInit ==
    /\ input_words \in {<<toks>> : toks \in SeqsUpTo(TokenSet, MaxTokens)}
    /\ decodes \in {<< <<p>> >> : p \in Preds}
    /\ lens \in {<< <<e>> >> : e \in 1..(MaxTags + 2)}
    /\ flat_decodes = <<>>
    /\ flat_lens = <<>>
    /\ idx = 0
    /\ outputs = <<>>
    /\ locals_out = <<>>
    /\ d_pc = "start"

\* The batches a loader of batch size b makes of a list (lines 139-144).
Chunks(xs, b) ==
    [k \in 1..((Len(xs) + b - 1) \div b) |->
        SubSeq(xs, (k - 1) * b + 1, Min(k * b, Len(xs)))]

BatchExamples ==
    [tokens : {<< <<"a">> >>, << <<"b", "c">> >>},
     pred   : {<<no_entity_id, 0>>, <<no_entity_id, no_entity_id>>},
     len    : {1, 2}]

\* Several examples, batched as the loader batches them.
BatchInit ==
    /\ \E exs \in SeqsUpTo(BatchExamples, MaxExamples), b \in 1..MaxExamples :
          /\ input_words = [i \in 1..Len(exs) |-> exs[i].tokens]
          /\ decodes = Chunks([i \in 1..Len(exs) |-> exs[i].pred], b)
          /\ lens = Chunks([i \in 1..Len(exs) |-> exs[i].len], b)
    /\ flat_decodes = <<>>
    /\ flat_lens = <<>>
    /\ idx = 0
    /\ outputs = <<>>
    /\ locals_out = <<>>
    /\ d_pc = "start"

DecodeIdle ==
    /\ input_words = <<>>
    /\ decodes = <<>>
    /\ lens = <<>>
    /\ flat_decodes = <<>>
    /\ flat_lens = <<>>
    /\ idx = 0
    /\ outputs = <<>>
    /\ locals_out = <<>>
    /\ d_pc = "idle"

\* lines 38-41
Flatten ==
    /\ d_pc = "start"
    /\ flat_decodes' = FlattenBatches(decodes)
    /\ flat_lens' = FlattenBatches(lens)
    /\ outputs' = <<>>
    /\ d_pc' = "loop"
    /\ UNCHANGED <<input_words, decodes, lens, idx, locals_out>>

\* lines 42-64: one iteration of the loop over the examples
ParseExample ==
    /\ d_pc = "loop"
    /\ idx < Len(flat_lens)
    /\ idx < Len(input_words)
    /\ idx < Len(flat_decodes)
    /\ LET st == DecodeExample(input_words[idx + 1], flat_decodes[idx + 1],
                               flat_lens[idx + 1])
       IN /\ outputs' = Append(outputs, RenderExample(st))
          /\ locals_out' = Append(locals_out,
                                  [sent_out |-> st.sent_out,
                                   tags_out |-> st.tags_out])
    /\ idx' = idx + 1
    /\ UNCHANGED <<input_words, decodes, lens, flat_decodes, flat_lens, d_pc>>

\* line 65
ReturnOutputs ==
    /\ d_pc = "loop"
    /\ idx = Len(flat_lens)
    /\ d_pc' = "done"
    /\ UNCHANGED <<input_words, decodes, lens, flat_decodes, flat_lens, idx,
                   outputs, locals_out>>

----------------------------------------------------------------------------
(* NerPaddle.run, lines 175-201 *)

MaxLoggingSteps == 2

\* line 176
last_step(a) == a.num_train_epochs * a.batches

\* Faulty variant: the last step is not a reason to save.
SaveDueNoLast(gs, a) == gs % a.save_steps = 0

\* line 195
SaveDue(gs, a) == gs % a.save_steps = 0 \/ gs = last_step(a)

\* line 196: paddle.distributed.get_rank() == 0
IsSaver(a) == a.rank = 0

RunInit ==
    /\ args \in [num_train_epochs : 0..MaxEpochs,
                 batches          : 0..MaxBatches,
                 save_steps       : 1..MaxSaveSteps,
                 logging_steps    : 1..MaxLoggingSteps,
                 rank             : 0..MaxRank]
    /\ epoch = 0
    /\ step = 0
    /\ global_step = 0
    /\ opt_steps = 0
    /\ evaluated = <<>>
    /\ saved = <<>>
    /\ logged = <<>>
    /\ r_pc = "loop"

RunIdle ==
    /\ args = [num_train_epochs |-> 0, batches |-> 0, save_steps |-> 1,
               logging_steps |-> 1, rank |-> 0]
    /\ epoch = 0
    /\ step = 0
    /\ global_step = 0
    /\ opt_steps = 0
    /\ evaluated = <<>>
    /\ saved = <<>>
    /\ logged = <<>>
    /\ r_pc = "idle"

\* lines 179-184: the loader yields batch number step; forward pass and loss
BeginStep ==
    /\ r_pc = "loop"
    /\ epoch < args.num_train_epochs
    /\ step < args.batches
    /\ global_step' = global_step + 1
    /\ r_pc' = "log"
    /\ UNCHANGED <<args, epoch, step, opt_steps, evaluated, saved, logged>>

\* lines 185-190
LogStep ==
    /\ r_pc = "log"
    /\ logged' = IF global_step % args.logging_steps = 0
                 THEN Append(logged, global_step) ELSE logged
    /\ r_pc' = "optimize"
    /\ UNCHANGED <<args, epoch, step, global_step, opt_steps, evaluated, saved>>

\* lines 191-194: backward, optimizer.step(), lr_scheduler.step(), clear_grad()
OptimizerStep ==
    /\ r_pc = "optimize"
    /\ opt_steps' = opt_steps + 1
    /\ r_pc' = "check"
    /\ UNCHANGED <<args, epoch, step, global_step, evaluated, saved, logged>>

\* lines 195-196: the two conditions; when either fails the batch is over
CheckSave ==
    /\ r_pc = "check"
    /\ IF SaveDue(global_step, args) /\ IsSaver(args)
       THEN r_pc' = "evaluate" /\ step' = step
       ELSE r_pc' = "loop" /\ step' = step + 1
    /\ UNCHANGED <<args, epoch, global_step, opt_steps, evaluated, saved, logged>>

\* lines 197-198
Evaluate ==
    /\ r_pc = "evaluate"
    /\ evaluated' = Append(evaluated, global_step)
    /\ r_pc' = "save"
    /\ UNCHANGED <<args, epoch, step, global_step, opt_steps, saved, logged>>

\* lines 199-201: paddle.save(..., "model_%d.pdparams" % global_step)
SaveCheckpoint ==
    /\ r_pc = "save"
    /\ saved' = Append(saved, global_step)
    /\ step' = step + 1
    /\ r_pc' = "loop"
    /\ UNCHANGED <<args, epoch, global_step, opt_steps, evaluated, logged>>

\* line 179 exhausted: the next iteration of line 178
NextEpoch ==
    /\ r_pc = "loop"
    /\ epoch < args.num_train_epochs
    /\ step = args.batches
    /\ epoch' = epoch + 1
    /\ step' = 0
    /\ UNCHANGED <<args, global_step, opt_steps, evaluated, saved, logged, r_pc>>

\* line 178 exhausted
EndRun ==
    /\ r_pc = "loop"
    /\ epoch = args.num_train_epochs
    /\ r_pc' = "done"
    /\ UNCHANGED <<args, epoch, step, global_step, opt_steps, evaluated, saved,
                   logged>>

----------------------------------------------------------------------------
(* Specifications *)

NextAlign == tokenize_and_align_labels /\ UNCHANGED <<dvars, rvars>>

InitAlign == AlignInit /\ DecodeIdle /\ RunIdle

SpecAlign == InitAlign /\ [][NextAlign]_vars

NextDecode ==
    \/ Flatten /\ UNCHANGED <<avars, rvars>>
    \/ ParseExample /\ UNCHANGED <<avars, rvars>>
    \/ ReturnOutputs /\ UNCHANGED <<avars, rvars>>

InitDecode == AlignIdle /\ DecodeInit /\ RunIdle

SpecDecode == InitDecode /\ [][NextDecode]_vars

InitBatch == AlignIdle /\ BatchInit /\ RunIdle

SpecBatch == InitBatch /\ [][NextDecode]_vars

NextRun ==
    \/ BeginStep /\ UNCHANGED <<avars, dvars>>
    \/ LogStep /\ UNCHANGED <<avars, dvars>>
    \/ OptimizerStep /\ UNCHANGED <<avars, dvars>>
    \/ CheckSave /\ UNCHANGED <<avars, dvars>>
    \/ Evaluate /\ UNCHANGED <<avars, dvars>>
    \/ SaveCheckpoint /\ UNCHANGED <<avars, dvars>>
    \/ NextEpoch /\ UNCHANGED <<avars, dvars>>
    \/ EndRun /\ UNCHANGED <<avars, dvars>>

InitRun == AlignIdle /\ DecodeIdle /\ RunInit

SpecRun == InitRun /\ [][NextRun]_vars

----------------------------------------------------------------------------
(* Properties of tokenize_and_align_labels, checked under SpecAlign *)

\* C1: for every subtoken count >= 2 and every label sequence, also one
\* longer than the room, the aligned labels have exactly as many entries as
\* input_ids.
C1_AlignedLength ==
    a_pc = "done" => Len(tokenized_labels) = input_ids_len

C1_Witness ==
    /\ a_pc = "done"
    /\ Len(labels) > input_ids_len - 2
    /\ input_ids_len >= 3
    /\ Len(tokenized_labels) = input_ids_len

\* C2: with k = min(len(labels), subtoken_count - 2), the output holds
\* no_entity_id at position 0, the first k labels in order at 1..k, and
\* no_entity_id at every position k+1 .. subtoken_count-1.
C2_AlignedContent ==
    a_pc = "done" =>
        LET k == Min(Len(labels), input_ids_len - 2)
        IN /\ Len(tokenized_labels) >= input_ids_len
           /\ tokenized_labels[1] = no_entity_id
           /\ \A i \in 1..k : tokenized_labels[i + 1] = labels[i]
           /\ \A j \in (k + 2)..input_ids_len :
                 tokenized_labels[j] = no_entity_id

C2_Witness ==
    /\ a_pc = "done"
    /\ input_ids_len >= 4
    /\ Len(labels) > input_ids_len - 2
    /\ labels[1] # labels[Len(labels)]
    /\ labels[1] # no_entity_id
    /\ tokenized_labels[2] = labels[1]
    /\ tokenized_labels[input_ids_len] = no_entity_id

----------------------------------------------------------------------------
(* Properties of parse_decodes, checked under SpecDecode and SpecBatch *)

IsB(t) == StartsWith(t, BPrefix)
IsI(t) == StartsWith(t, IPrefix)
IsO(t) == t = OTag

Examples == 1..Len(locals_out)
SentOf(i) == Join(input_words[i])
TagsGiven(i) == TagsOf(flat_decodes[i], flat_lens[i])
\* the number of (character, tag) pairs the walk of example i sees
Walked(i) == Min(Len(SentOf(i)), Len(TagsGiven(i)))

\* The type the specification records for a tag: everything after "B-".
SuffixType(t) == IF IsB(t) THEN SubSeq(t, 3, Len(t)) ELSE OTag

\* The positions whose tag is O or B-, and the k-th of them.
OpenAt(tags, m) == {p \in 1..m : IsB(tags[p]) \/ IsO(tags[p])}
KthOpen(tags, m, k) ==
    CHOOSE p \in OpenAt(tags, m) :
        Cardinality({q \in OpenAt(tags, m) : q < p}) = k - 1

\* The last position of the run of I- tags directly after position p.
RunEnd(tags, m, p) ==
    CHOOSE q \in p..m :
        /\ \A r \in (p + 1)..q : IsI(tags[r])
        /\ q = m \/ ~IsI(tags[q + 1])

\* The character at the k-th O/B- tag followed by those of its I- tags.
GroupText(sent, tags, m, k) ==
    LET p == KthOpen(tags, m, k) IN SubSeq(sent, p, RunEnd(tags, m, p))

IsPrefix(a, b) == Len(a) <= Len(b) /\ SubSeq(b, 1, Len(a)) = a

\* No I- tag directly follows a tag of another type.
WellTyped(tags) ==
    \A p \in 2..Len(tags) :
        IsI(tags[p]) =>
            \/ tags[p - 1] = tags[p]
            \/ tags[p - 1] = BPrefix \o SubSeq(tags[p], 3, Len(tags[p]))

\* C3: for every tag sequence, well-formed or not, the span list and the
\* type list of an example have the same length when the pairs are
\* rendered, and the rendering holds every span with its type.
C3_SpansMatchTypes ==
    \A i \in Examples :
        /\ Len(locals_out[i].sent_out) = Len(locals_out[i].tags_out)
        /\ outputs[i] =
              Join([k \in 1..Len(locals_out[i].tags_out) |->
                      RenderPair(locals_out[i].sent_out[k],
                                 locals_out[i].tags_out[k])])

C3_Witness ==
    /\ d_pc = "done"
    /\ Examples # {}
    /\ Walked(1) >= 3
    /\ IsI(TagsGiven(1)[1])
    /\ IsB(TagsGiven(1)[Walked(1)])
    /\ Len(locals_out[1].tags_out) >= 2
    /\ Len(locals_out[1].sent_out) = Len(locals_out[1].tags_out)

\* C4: with one tag per source character, a first tag O or B-, and no I-
\* tag after a span of another type, the decoded spans concatenated in
\* output order are the source text.
C4_SpansConcatToText ==
    \A i \in Examples :
        LET tags == TagsGiven(i) IN
        ( /\ Len(tags) = Len(SentOf(i))
          /\ Len(tags) >= 1 => OpensSpan(tags[1])
          /\ WellTyped(tags) )
        => Join(locals_out[i].sent_out) = SentOf(i)

C4_Witness ==
    /\ d_pc = "done"
    /\ Examples # {}
    /\ LET tags == TagsGiven(1) IN
        /\ Len(tags) = Len(SentOf(1))
        /\ Len(tags) >= 3
        /\ IsB(tags[1])
        /\ IsI(tags[2])
        /\ WellTyped(tags)
        /\ IsO(tags[3])
    /\ Len(locals_out[1].sent_out) = 2
    /\ Join(locals_out[1].sent_out) = SentOf(1)

\* C5: for a tag sequence that starts with O or B-, the output has one
\* (span, type) pair per O or B- tag, in text order; the span is the
\* character at that tag followed by those of the I- tags directly after
\* it, the type is the suffix after "B-" or "O", and the last pair is
\* present also when the sequence ends inside an open entity.
C5_PairPerOpeningTag ==
    \A i \in Examples :
        LET tags == TagsGiven(i)
            sent == SentOf(i)
            m == Walked(i)
            n == Cardinality(OpenAt(tags, m))
        IN (m >= 1 /\ OpensSpan(tags[1])) =>
              /\ Len(locals_out[i].sent_out) = n
              /\ Len(locals_out[i].tags_out) = n
              /\ \A k \in 1..n :
                    /\ locals_out[i].sent_out[k] = GroupText(sent, tags, m, k)
                    /\ locals_out[i].tags_out[k] =
                          SuffixType(tags[KthOpen(tags, m, k)])

\* C6: when the tag sequence begins with I- tags, the characters under
\* them appear in no span and nothing else changes: every O or B- tag
\* from the first one on still yields its own span, one per type.
C6_LeadingIOnlyDropsLeading ==
    \A i \in Examples :
        LET tags == TagsGiven(i)
            sent == SentOf(i)
            m == Walked(i)
            n == Cardinality(OpenAt(tags, m))
        IN (m >= 1 /\ IsI(tags[1])) =>
              /\ Len(locals_out[i].sent_out) = n
              /\ Len(locals_out[i].tags_out) = n
              /\ \A k \in 1..n :
                    locals_out[i].sent_out[k] = GroupText(sent, tags, m, k)

\* The tag the model's label list gives position k of a prediction.
TagAtPosition(pred, k) == id2label[pred[k + 1] + 1]

\* C7 as stated: with n characters, a prediction holding the boundary
\* position and then one tag per character, and end = n, all n characters
\* appear in the output spans.
C7_EndEqualsCharCount ==
    \A i \in Examples :
        LET n == Len(SentOf(i)) IN
        (n >= 1 /\ Len(flat_decodes[i]) = n + 1 /\ flat_lens[i] = n)
        => Join(locals_out[i].sent_out) = SentOf(i)

\* C7 as amended: the tags read are those at positions 1 .. end-1, so end-1
\* of them.  With end = n the last character is never tagged and appears in
\* no span; with end >= n+1 all n characters are tagged, and for a sequence
\* starting with O or B- every character appears in a span.
C7_EndCountsBoundary ==
    \A i \in Examples :
        LET sent == SentOf(i)
            n == Len(sent)
            pred == flat_decodes[i]
            end == flat_lens[i]
            m == Min(n, end - 1)
            read == [k \in 1..m |-> TagAtPosition(pred, k)]
        IN (n >= 1 /\ Len(pred) = n + 1 /\ end >= 1) =>
              /\ locals_out[i].tags_out =
                    [k \in 1..Cardinality(OpenAt(read, m)) |->
                        EntityType(read[KthOpen(read, m, k)])]
              /\ IsPrefix(Join(locals_out[i].sent_out), SubSeq(sent, 1, m))
              /\ (m >= 1 /\ OpensSpan(read[1])) =>
                    Join(locals_out[i].sent_out) = SubSeq(sent, 1, m)
              /\ end = n => m = n - 1
              /\ end >= n + 1 => m = n

C7_Witness ==
    /\ d_pc = "done"
    /\ Examples # {}
    /\ Len(SentOf(1)) = 3
    /\ Len(flat_decodes[1]) = 4
    /\ flat_lens[1] = 3
    /\ IsB(TagAtPosition(flat_decodes[1], 1))
    /\ Join(locals_out[1].sent_out) = SubSeq(SentOf(1), 1, 2)

\* The flat index before the first example of batch b.
RECURSIVE Offset(_, _)
Offset(batches, b) ==
    IF b = 1 THEN 0 ELSE Offset(batches, b - 1) + Len(batches[b - 1])

\* C8: the batches are concatenated in order, there is one result per
\* flattened length, and result i is computed from example i, prediction i
\* and length i alone.
C8_OneResultPerExampleInOrder ==
    /\ d_pc = "loop" => Len(outputs) = idx
    /\ d_pc = "done" =>
        /\ Len(outputs) = Offset(lens, Len(lens) + 1)
        /\ \A b \in 1..Len(lens) : \A j \in 1..Len(lens[b]) :
              LET i == Offset(lens, b) + j
              IN outputs[i] =
                    RenderExample(DecodeExample(input_words[i], decodes[b][j],
                                                lens[b][j]))

C8_Witness ==
    /\ d_pc = "done"
    /\ Len(lens) >= 2
    /\ Len(lens[1]) = 2
    /\ Len(outputs) = 3
    /\ outputs[1] # outputs[2]
    /\ outputs[2] # outputs[3]
    /\ outputs[1] # outputs[3]

\* C9: for a B-<Type> tag the recorded type is the whole suffix after
\* "B-", also when <Type> holds a hyphen; for an O tag it is "O".
C9_TypeIsWholeSuffix ==
    \A i \in Examples :
        LET tags == TagsGiven(i)
            m == Walked(i)
            n == Cardinality(OpenAt(tags, m))
        IN /\ Len(locals_out[i].tags_out) = n
           /\ \A k \in 1..n :
                 locals_out[i].tags_out[k] =
                    SuffixType(tags[KthOpen(tags, m, k)])

----------------------------------------------------------------------------
(* Properties of the training loop, checked under SpecRun *)

InStep == r_pc \in {"log", "optimize", "check", "evaluate", "save"}
\* global step g has run to the end of its loop body
StepOver(g) == g < global_step \/ r_pc \in {"loop", "done"}
SavedSteps == {saved[k] : k \in 1..Len(saved)}

\* C10: global_step grows by one per batch; a checkpoint is written at a
\* step exactly when the rank is 0 and the step is a multiple of save_steps
\* or the last step; each write follows, in its step, the optimizer step
\* and an evaluation; the saved step ids are strictly increasing; and on
\* rank 0 the final step is saved.
C10_CheckpointCadence ==
    /\ global_step = epoch * args.batches + step + (IF InStep THEN 1 ELSE 0)
    /\ \A g \in 1..global_step :
          StepOver(g) =>
             ( g \in SavedSteps <=>
                  /\ args.rank = 0
                  /\ \/ g % args.save_steps = 0
                     \/ g = args.num_train_epochs * args.batches )
    /\ r_pc \in {"check", "evaluate", "save"} => opt_steps = global_step
    /\ r_pc = "save" =>
          /\ Len(evaluated) = Len(saved) + 1
          /\ evaluated[Len(evaluated)] = global_step
    /\ r_pc # "save" => Len(evaluated) = Len(saved)
    /\ \A k \in 1..Len(saved) : evaluated[k] = saved[k]
    /\ \A k \in 1..(Len(saved) - 1) : saved[k] < saved[k + 1]
    /\ r_pc = "done" =>
          /\ global_step = args.num_train_epochs * args.batches
          /\ (args.rank = 0 /\ global_step >= 1) =>
                (saved # <<>> /\ saved[Len(saved)] = global_step)

C10_Witness ==
    /\ r_pc = "done"
    /\ args.rank = 0
    /\ args.num_train_epochs = 2
    /\ global_step % args.save_steps # 0
    /\ Len(saved) >= 2
    /\ saved[Len(saved)] = global_step

====
